---- MODULE Spec2Model ----
(***************************************************************************)
(* EduPlanr study-session scheduling: findAvailableSlots and               *)
(* autoScheduleSessions of src/services/sessionsService.ts, over the       *)
(* Firestore "sessions" collection they read and write.                    *)
(*                                                                         *)
(* A timestamp is a whole number of seconds since local midnight of day 0. *)
(***************************************************************************)
EXTENDS Integers, Sequences, FiniteSets, TLC

----------------------------------------------------------------------------
(* Bounds of the model *)

MaxBookings == 2      \* documents in the sessions collection before a call
MaxTopics == 2        \* topics in syllabus.topics
MaxDaysAhead == 2     \* largest explicit options.daysAhead

----------------------------------------------------------------------------
(* date-fns and Date arithmetic *)

Minute == 60
Hour == 60 * Minute
Day == 24 * Hour

At(day, h, m, s) == day * Day + h * Hour + m * Minute + s

AddMinutes(t, m) == t + m * Minute

AddDays(t, d) == t + d * Day

\* new Date(d).setHours(h, 0, 0, 0): same local day, time of day h:00:00.000
SetHours(t, h) == (t \div Day) * Day + h * Hour

\* whole minutes between two dates, fraction truncated toward zero
DifferenceInMinutes(later, earlier) ==
    LET d == later - earlier
    IN  IF d >= 0 THEN d \div Minute ELSE 0 - ((0 - d) \div Minute)

IsWithinInterval(t, start, end) == start <= t /\ t <= end

Min(a, b) == IF a <= b THEN a ELSE b

\* Array.prototype.sort with a comparator on keys, key[i] being the key of
\* seq[i]: ascending and stable
StableSort(seq, key) ==
    LET n == Len(seq)
        Rank(i) == Cardinality({j \in 1..n :
                        \/ key[j] < key[i]
                        \/ key[j] = key[i] /\ j < i}) + 1
    IN  [k \in 1..n |-> seq[CHOOSE i \in 1..n : Rank(i) = k]]

----------------------------------------------------------------------------
(* Types of src/types *)

priorityOrder == [critical |-> 0, high |-> 1, medium |-> 2, low |-> 3]

Priority == {"low", "medium", "high", "critical"}

TopicStatus == {"not-started", "in-progress", "completed", "skipped"}

MinSessionMinutes == 15

DEFAULT_SCHEDULING_OPTIONS ==
    [preferredStartHour |-> 9, preferredEndHour |-> 21,
     sessionDuration |-> 45, breakDuration |-> 15, daysAhead |-> 7]

\* { ...DEFAULT_SCHEDULING_OPTIONS, ...options }
MergeOptions(options) ==
    [f \in DOMAIN DEFAULT_SCHEDULING_OPTIONS |->
        IF f \in DOMAIN options THEN options[f]
        ELSE DEFAULT_SCHEDULING_OPTIONS[f]]

----------------------------------------------------------------------------
(* The sessions collection *)

\* a stored session; topicId 0 stands for null (a booking made by hand)
SessionDoc(u, t, s, e) ==
    [userId |-> u, topicId |-> t, startTime |-> s, endTime |-> e]

\* variant: the document is written twice
AddDocTwice(docs, doc) == Append(Append(docs, doc), doc)

\* addDoc(sessionsRef, docData) in createSession: one new document
AddDoc(docs, doc) == Append(docs, doc)

\* (a, b) => a.startTime.getTime() - b.startTime.getTime(), orderBy startTime
SortByStartTime(sessions) ==
    StableSort(sessions, [i \in DOMAIN sessions |-> sessions[i].startTime])

\* variant: the userId condition left out of the query
GetSessionsInRangeOfAnyUser(docs, u, startDate, endDate) ==
    SortByStartTime(
        SelectSeq(docs, LAMBDA d : /\ d.startTime >= startDate
                                   /\ d.startTime <= endDate))

\* where userId == u, startTime >= startDate, startTime <= endDate,
\* orderBy startTime asc; docs is held in document-name order, which is
\* the order Firestore falls back on between equal start times
GetSessionsInRange(docs, u, startDate, endDate) ==
    SortByStartTime(
        SelectSeq(docs, LAMBDA d : /\ d.userId = u
                                   /\ d.startTime >= startDate
                                   /\ d.startTime <= endDate))

----------------------------------------------------------------------------
(* findAvailableSlots: the computation after the bookings were read *)

TimeSlot(s, e) == [start |-> s, end |-> e]

DayStart(today, day, opts) ==
    SetHours(AddDays(today, day), opts.preferredStartHour)

\* variant: the day ends at midnight, not at preferredEndHour
DayEndAtMidnight(today, day, opts) == SetHours(AddDays(today, day), 24)

DayEnd(today, day, opts) ==
    SetHours(AddDays(today, day), opts.preferredEndHour)

\* existingSessions.filter(isWithinInterval(startTime, day window)).sort(...)
DaySessions(existingSessions, dayStart, dayEnd) ==
    SortByStartTime(
        SelectSeq(existingSessions,
                  LAMBDA s : IsWithinInterval(s.startTime, dayStart, dayEnd)))

\* variant: any positive gap is taken for a slot
GapFitsAnyGap(gap, opts) == gap > 0

\* variant: a gap is kept when it reaches the 15-minute floor
GapFitsFloor(gap, opts) == gap >= MinSessionMinutes

\* gap >= opts.sessionDuration, remainingTime >= opts.sessionDuration
GapFits(gap, opts) == gap >= opts.sessionDuration

\* currentTime after a booking: its end plus the break
AfterSession(session, opts) == AddMinutes(session.endTime, opts.breakDuration)

RECURSIVE GapSlots(_, _, _, _, _)
\* the loop over daySessions from index i on, then the end-of-day check
GapSlots(daySessions, i, currentTime, dayEnd, opts) ==
    IF i > Len(daySessions)
    THEN IF GapFits(DifferenceInMinutes(dayEnd, currentTime), opts)
         THEN << TimeSlot(currentTime, dayEnd) >>
         ELSE << >>
    ELSE LET session == daySessions[i]
             gap == DifferenceInMinutes(session.startTime, currentTime)
         IN  (IF GapFits(gap, opts)
              THEN << TimeSlot(currentTime, session.startTime) >>
              ELSE << >>)
             \o GapSlots(daySessions, i + 1, AfterSession(session, opts),
                         dayEnd, opts)

RECURSIVE SlotsFromDay(_, _, _, _)
\* for (let day = 0; day < opts.daysAhead; day++)
SlotsFromDay(existingSessions, today, day, opts) ==
    IF day >= opts.daysAhead
    THEN << >>
    ELSE LET dayStart == DayStart(today, day, opts)
             dayEnd == DayEnd(today, day, opts)
         IN  GapSlots(DaySessions(existingSessions, dayStart, dayEnd),
                      1, dayStart, dayEnd, opts)
             \o SlotsFromDay(existingSessions, today, day + 1, opts)

\* findAvailableSlots(userId, options) called at wall-clock time today
FindSlots(docs, u, today, opts) ==
    SlotsFromDay(
        GetSessionsInRange(docs, u, today, AddDays(today, opts.daysAhead)),
        today, 0, opts)

----------------------------------------------------------------------------
(* autoScheduleSessions: pure parts *)

\* variant: only completed topics are left out
IsIncompleteNotCompleted(topic) == topic.status # "completed"

\* variant: only skipped topics are left out
IsIncompleteNotSkipped(topic) == topic.status # "skipped"

IsIncomplete(topic) == topic.status # "completed" /\ topic.status # "skipped"

PriorityRank(topic) == priorityOrder[topic.priority]

\* variant: the comparator's operands swapped, low priority first
SortTopicsDescending(topics) ==
    StableSort(topics, [i \in DOMAIN topics |-> 0 - PriorityRank(topics[i])])

\* variant: the sort left out
SortTopicsUnsorted(topics) == topics

\* .sort((a, b) => priorityOrder[a.priority] - priorityOrder[b.priority])
SortTopics(topics) ==
    StableSort(topics, [i \in DOMAIN topics |-> PriorityRank(topics[i])])

\* syllabus.topics.filter(...).sort(...)
IncompleteTopicsOf(topics) == SortTopics(SelectSeq(topics, IsIncomplete))

RequiredMinutes(topic) == topic.estimatedHours * 60

\* variant: the topic's remaining requirement left out of the minimum
SessionMinutesUncapped(opts, slotDuration, remaining) ==
    Min(opts.sessionDuration, slotDuration)

\* Math.min(opts.sessionDuration, slotDuration, requiredMinutes - scheduledMinutes)
SessionMinutes(opts, slotDuration, remaining) ==
    Min(opts.sessionDuration, Min(slotDuration, remaining))

\* variant: any positive length accepted
LongEnoughPositive(sessionMinutes) == sessionMinutes > 0

\* variant: the floor at 10 minutes
LongEnoughTenMinutes(sessionMinutes) == sessionMinutes >= 10

\* if (sessionMinutes >= 15)
LongEnough(sessionMinutes) == sessionMinutes >= MinSessionMinutes

\* variant: the break subtracted instead of added
NextSlotStartBackward(sessionEnd, opts) ==
    AddMinutes(sessionEnd, 0 - opts.breakDuration)

\* slot.start = addMinutes(sessionEnd, opts.breakDuration)
NextSlotStart(sessionEnd, opts) == AddMinutes(sessionEnd, opts.breakDuration)

\* variant: the exhaustion test left out, slotIndex stays on the slot
SlotExhaustedNever(slot, opts) == FALSE

\* variant: a slot counts as exhausted only below the 15-minute floor
SlotExhaustedBelowFloor(slot, opts) ==
    DifferenceInMinutes(slot.end, slot.start) < MinSessionMinutes

\* variant: a slot counts as exhausted only when nothing is left of it
SlotExhaustedNonPositive(slot, opts) ==
    DifferenceInMinutes(slot.end, slot.start) <= 0

\* differenceInMinutes(slot.end, slot.start) < opts.sessionDuration
SlotExhausted(slot, opts) ==
    DifferenceInMinutes(slot.end, slot.start) < opts.sessionDuration

----------------------------------------------------------------------------
(* Inputs *)

Procs == {1, 2}

Users == {"u1", "u2"}

Ops == {"findAvailableSlots", "autoScheduleSessions"}

\* wall-clock times new Date() may return: midnight and mid-morning of day 0
NowChoices == {At(0, 0, 0, 0), At(0, 10, 30, 0)}

\* the options argument (a Partial<SchedulingOptions>), all well formed
OptionsChoices ==
    {[daysAhead |-> d] : d \in 1..MaxDaysAhead}
    \cup {[preferredEndHour |-> 11, daysAhead |-> d] : d \in 1..MaxDaysAhead}
    \cup {[preferredEndHour |-> 11, sessionDuration |-> 50],
          [preferredEndHour |-> 11, breakDuration |-> 0, daysAhead |-> 1],
          [preferredEndHour |-> 12, breakDuration |-> 0, daysAhead |-> 1],
          [preferredEndHour |-> 12, sessionDuration |-> 90, daysAhead |-> 1],
          [preferredStartHour |-> 0, preferredEndHour |-> 23,
           sessionDuration |-> 30, breakDuration |-> 120, daysAhead |-> 2]}

\* sessions that may already be stored (start < end in each)
BookingChoices ==
    << SessionDoc("u1", 0, At(0, 10, 0, 0), At(0, 11, 0, 0)),
       SessionDoc("u1", 0, At(0, 8, 0, 0), At(0, 8, 55, 0)),
       SessionDoc("u1", 0, At(0, 9, 45, 0), At(0, 10, 15, 0)),
       SessionDoc("u1", 0, At(1, 9, 45, 30), At(1, 10, 0, 0)),
       SessionDoc("u1", 0, At(0, 0, 0, 0), At(0, 20, 30, 0)),
       SessionDoc("u2", 0, At(0, 9, 0, 0), At(0, 10, 0, 0)) >>

\* the collection before a call: at most MaxBookings of the choices
StoreChoices ==
    {SelectSeq(BookingChoices, LAMBDA b : b \in S) :
        S \in {T \in SUBSET {BookingChoices[i] : i \in DOMAIN BookingChoices} :
                  Cardinality(T) <= MaxBookings}}

TopicChoices ==
    {[priority |-> "critical", status |-> "not-started", estimatedHours |-> 1],
     [priority |-> "high", status |-> "in-progress", estimatedHours |-> 2],
     [priority |-> "low", status |-> "not-started", estimatedHours |-> 1],
     [priority |-> "medium", status |-> "completed", estimatedHours |-> 1],
     [priority |-> "critical", status |-> "skipped", estimatedHours |-> 2]}

\* a topic of syllabus.topics; its id is its position in the list
Topic(i, t) ==
    [id |-> i, priority |-> t.priority, status |-> t.status,
     estimatedHours |-> t.estimatedHours]

TopicLists ==
    UNION {{[i \in 1..n |-> Topic(i, f[i])] : f \in [1..n -> TopicChoices]} :
              n \in 0..MaxTopics}

----------------------------------------------------------------------------
(* State *)

VARIABLES
    store,              \* the sessions collection, in document-name order
    bookings,           \* the collection as it was before any call
    clock,              \* the latest wall-clock time read
    pc,                 \* per call: "off", "idle", "query", "alloc", "done"
    op,                 \* per call: the exported function called
    userId,             \* per call: argument userId
    options,            \* per call: argument options
    syllabus,           \* per call: syllabus.topics
    today,              \* per call: today = new Date()
    availableSlots,     \* per call: the slot list
    slotIndex,          \* per call
    topicIndex,         \* per call: topics of incompleteTopics finished
    scheduledMinutes,   \* per call
    scheduledSessions   \* per call

vars == << store, bookings, clock, pc, op, userId, options, syllabus, today,
           availableSlots, slotIndex, topicIndex, scheduledMinutes,
           scheduledSessions >>

Opts(c) == MergeOptions(options[c])

IncompleteTopics(c) == IncompleteTopicsOf(syllabus[c])

\* a call of autoScheduleSessions by user u1; call 2 is not made
Init ==
    /\ store \in StoreChoices
    /\ bookings = store
    /\ clock = 0
    /\ \E o \in Ops :
          /\ op = [c \in Procs |-> o]
          /\ \E tl \in (IF o = "autoScheduleSessions" THEN TopicLists ELSE {<< >>}) :
                syllabus = [c \in Procs |-> IF c = 1 THEN tl ELSE << >>]
    /\ pc = [c \in Procs |-> IF c = 1 THEN "idle" ELSE "off"]
    /\ userId = [c \in Procs |-> "u1"]
    /\ \E o \in OptionsChoices : options = [c \in Procs |-> o]
    /\ today = [c \in Procs |-> 0]
    /\ availableSlots = [c \in Procs |-> << >>]
    /\ slotIndex = [c \in Procs |-> 0]
    /\ topicIndex = [c \in Procs |-> 0]
    /\ scheduledMinutes = [c \in Procs |-> 0]
    /\ scheduledSessions = [c \in Procs |-> << >>]

----------------------------------------------------------------------------
(* Actions *)

\* autoScheduleSessions, incompleteTopics.length === 0: return []
ReturnEmpty(c) ==
    /\ pc[c] = "idle"
    /\ op[c] = "autoScheduleSessions"
    /\ IncompleteTopics(c) = << >>
    /\ pc' = [pc EXCEPT ![c] = "done"]
    /\ UNCHANGED << store, bookings, clock, op, userId, options, syllabus,
                    today, availableSlots, slotIndex, topicIndex,
                    scheduledMinutes, scheduledSessions >>

\* up to the await of getSessionsInRange: today = new Date() is read and the
\* query is sent
Begin(c) ==
    /\ pc[c] = "idle"
    /\ op[c] = "autoScheduleSessions" => IncompleteTopics(c) # << >>
    /\ \E now \in NowChoices :
          /\ now >= clock
          /\ clock' = now
          /\ today' = [today EXCEPT ![c] = now]
    /\ pc' = [pc EXCEPT ![c] = "query"]
    /\ UNCHANGED << store, bookings, op, userId, options, syllabus,
                    availableSlots, slotIndex, topicIndex, scheduledMinutes,
                    scheduledSessions >>

\* the query resolves; the slots are computed; findAvailableSlots returns
FindAvailableSlots(c) ==
    /\ pc[c] = "query"
    /\ availableSlots' =
          [availableSlots EXCEPT ![c] = FindSlots(store, userId[c], today[c], Opts(c))]
    /\ pc' = [pc EXCEPT ![c] =
                IF op[c] = "findAvailableSlots" THEN "done" ELSE "alloc"]
    /\ slotIndex' = [slotIndex EXCEPT ![c] = 0]
    /\ topicIndex' = [topicIndex EXCEPT ![c] = 0]
    /\ scheduledMinutes' = [scheduledMinutes EXCEPT ![c] = 0]
    /\ scheduledSessions' = [scheduledSessions EXCEPT ![c] = << >>]
    /\ UNCHANGED << store, bookings, clock, op, userId, options, syllabus, today >>

\* the topic of the running iteration of for (const topic of incompleteTopics)
CurrentTopic(c) == IncompleteTopics(c)[topicIndex[c] + 1]

InTopicLoop(c) ==
    /\ pc[c] = "alloc"
    /\ topicIndex[c] < Len(IncompleteTopics(c))

\* while (scheduledMinutes < requiredMinutes && slotIndex < availableSlots.length)
WhileCondition(c) ==
    /\ scheduledMinutes[c] < RequiredMinutes(CurrentTopic(c))
    /\ slotIndex[c] < Len(availableSlots[c])

CurrentSlot(c) == availableSlots[c][slotIndex[c] + 1]

CurrentSessionMinutes(c) ==
    SessionMinutes(Opts(c),
                   DifferenceInMinutes(CurrentSlot(c).end, CurrentSlot(c).start),
                   RequiredMinutes(CurrentTopic(c)) - scheduledMinutes[c])

\* one iteration of the while loop, sessionMinutes >= 15: the session is
\* stored by createSession, recorded, and the slot is shrunk
CreateSession(c) ==
    /\ InTopicLoop(c)
    /\ WhileCondition(c)
    /\ LongEnough(CurrentSessionMinutes(c))
    /\ LET sessionMinutes == CurrentSessionMinutes(c)
           sessionStart == CurrentSlot(c).start
           sessionEnd == AddMinutes(sessionStart, sessionMinutes)
           session == SessionDoc(userId[c], CurrentTopic(c).id, sessionStart, sessionEnd)
           slot == TimeSlot(NextSlotStart(sessionEnd, Opts(c)), CurrentSlot(c).end)
       IN  /\ store' = AddDoc(store, session)
           /\ scheduledSessions' =
                 [scheduledSessions EXCEPT ![c] = Append(@, session)]
           /\ scheduledMinutes' =
                 [scheduledMinutes EXCEPT ![c] = @ + sessionMinutes]
           /\ availableSlots' =
                 [availableSlots EXCEPT ![c][slotIndex[c] + 1] = slot]
           /\ slotIndex' =
                 [slotIndex EXCEPT ![c] =
                     IF SlotExhausted(slot, Opts(c)) THEN @ + 1 ELSE @]
    /\ UNCHANGED << bookings, clock, pc, op, userId, options, syllabus, today,
                    topicIndex >>

\* variant: the else branch without slotIndex++
SkipSlotStaying(c) ==
    /\ InTopicLoop(c)
    /\ WhileCondition(c)
    /\ ~LongEnough(CurrentSessionMinutes(c))
    /\ UNCHANGED vars

\* one iteration of the while loop, sessionMinutes < 15: slotIndex++
SkipSlot(c) ==
    /\ InTopicLoop(c)
    /\ WhileCondition(c)
    /\ ~LongEnough(CurrentSessionMinutes(c))
    /\ slotIndex' = [slotIndex EXCEPT ![c] = @ + 1]
    /\ UNCHANGED << store, bookings, clock, pc, op, userId, options, syllabus,
                    today, availableSlots, topicIndex, scheduledMinutes,
                    scheduledSessions >>

\* the for loop moving to the next topic with let slotIndex = 0 inside it
NextTopicResettingCursor(c) ==
    /\ InTopicLoop(c)
    /\ ~WhileCondition(c)
    /\ topicIndex' = [topicIndex EXCEPT ![c] = @ + 1]
    /\ scheduledMinutes' = [scheduledMinutes EXCEPT ![c] = 0]
    /\ slotIndex' = [slotIndex EXCEPT ![c] = 0]
    /\ UNCHANGED << store, bookings, clock, pc, op, userId, options, syllabus,
                    today, availableSlots, scheduledSessions >>

\* the while loop ends; the for loop moves to the next topic
NextTopic(c) ==
    /\ InTopicLoop(c)
    /\ ~WhileCondition(c)
    /\ topicIndex' = [topicIndex EXCEPT ![c] = @ + 1]
    /\ scheduledMinutes' = [scheduledMinutes EXCEPT ![c] = 0]
    /\ UNCHANGED << store, bookings, clock, pc, op, userId, options, syllabus,
                    today, availableSlots, slotIndex, scheduledSessions >>

\* the for loop is over: return scheduledSessions
Return(c) ==
    /\ pc[c] = "alloc"
    /\ topicIndex[c] = Len(IncompleteTopics(c))
    /\ pc' = [pc EXCEPT ![c] = "done"]
    /\ UNCHANGED << store, bookings, clock, op, userId, options, syllabus,
                    today, availableSlots, slotIndex, topicIndex,
                    scheduledMinutes, scheduledSessions >>

Next ==
    \E c \in Procs :
        \/ ReturnEmpty(c)
        \/ Begin(c)
        \/ FindAvailableSlots(c)
        \/ CreateSession(c)
        \/ SkipSlot(c)
        \/ NextTopic(c)
        \/ Return(c)

Spec == Init /\ [][Next]_vars


----------------------------------------------------------------------------
(* Two calls of findAvailableSlots by the same user with the same options, *)
(* made one after the other or overlapping; nothing is written             *)

InitFind ==
    /\ store \in StoreChoices
    /\ bookings = store
    /\ clock = 0
    /\ op = [c \in Procs |-> "findAvailableSlots"]
    /\ syllabus = [c \in Procs |-> << >>]
    /\ pc = [c \in Procs |-> "idle"]
    /\ userId = [c \in Procs |-> "u1"]
    /\ \E o \in OptionsChoices : options = [c \in Procs |-> o]
    /\ today = [c \in Procs |-> 0]
    /\ availableSlots = [c \in Procs |-> << >>]
    /\ slotIndex = [c \in Procs |-> 0]
    /\ topicIndex = [c \in Procs |-> 0]
    /\ scheduledMinutes = [c \in Procs |-> 0]
    /\ scheduledSessions = [c \in Procs |-> << >>]

NextFind ==
    \E c \in Procs :
        \/ Begin(c)
        \/ FindAvailableSlots(c)

SpecFind == InitFind /\ [][NextFind]_vars

----------------------------------------------------------------------------
(* Vocabulary of the properties *)

\* the bookings of the caller that existed before the call
BookingsOf(c) == {bookings[i] : i \in {j \in DOMAIN bookings : bookings[j].userId = userId[c]}}

\* the sessions the call has created so far
SessionsOf(c) == {scheduledSessions[c][i] : i \in DOMAIN scheduledSessions[c]}

\* the two time intervals share more than an end point
Overlap(a, b) == a.startTime < b.endTime /\ b.startTime < a.endTime

BreakSeconds(c) == Opts(c).breakDuration * Minute

RECURSIVE TotalSeconds(_, _, _)
\* summed length of the sessions of seq, from index i on, made for topic id
TotalSeconds(seq, i, id) ==
    IF i > Len(seq) THEN 0
    ELSE (IF seq[i].topicId = id THEN seq[i].endTime - seq[i].startTime ELSE 0)
         + TotalSeconds(seq, i + 1, id)

AllocatedSeconds(c, id) == TotalSeconds(scheduledSessions[c], 1, id)

DayOf(t) == t \div Day

\* the slot list is as findAvailableSlots returned it
SlotsAsReturned(c) ==
    \/ op[c] = "findAvailableSlots" /\ pc[c] = "done"
    \/ op[c] = "autoScheduleSessions" /\ pc[c] = "alloc"
          /\ scheduledSessions[c] = << >>

----------------------------------------------------------------------------
(* Properties *)

\* C1: no session created by autoScheduleSessions overlaps a booking of the
\* caller that existed before the call.
C1_NoSessionOverlapsBooking ==
    \A c \in Procs : \A s \in SessionsOf(c) : \A b \in BookingsOf(c) :
        ~Overlap(s, b)

\* C2: no two sessions created by one autoScheduleSessions call overlap: of
\* any two of them, one ends at or before the other starts.
C2_SessionsDisjoint ==
    \A c \in Procs :
        \A i, j \in DOMAIN scheduledSessions[c] :
            i # j =>
                \/ scheduledSessions[c][i].endTime <= scheduledSessions[c][j].startTime
                \/ scheduledSessions[c][j].endTime <= scheduledSessions[c][i].startTime

\* a finished call with sessions of two topics, two sessions of one topic on
\* one day, and sessions on two days
C2_Witness ==
    /\ pc[1] = "done"
    /\ \E s1, s2, s3 \in SessionsOf(1) :
          /\ s1.topicId = s2.topicId
          /\ s1.startTime < s2.startTime
          /\ DayOf(s1.startTime) = DayOf(s2.startTime)
          /\ s3.topicId # s1.topicId
          /\ DayOf(s3.startTime) # DayOf(s1.startTime)

\* C3: a session starts at least breakDuration minutes after the end of every
\* booking of the caller that ends at or before the session's start.
C3_BreakAfterBooking ==
    \A c \in Procs : \A s \in SessionsOf(c) : \A b \in BookingsOf(c) :
        b.endTime <= s.startTime =>
            s.startTime - b.endTime >= BreakSeconds(c)

\* C4: two sessions of one call are at least breakDuration minutes apart:
\* the later one starts no sooner than breakDuration after the earlier ends.
C4_BreakBetweenSessions ==
    \A c \in Procs : \A s1, s2 \in SessionsOf(c) :
        s1.startTime < s2.startTime =>
            s2.startTime - s1.endTime >= BreakSeconds(c)

\* C5: a session ends at least breakDuration minutes before the start of
\* every booking of the caller that starts at or after the session's end.
C5_BreakBeforeBooking ==
    \A c \in Procs : \A s \in SessionsOf(c) : \A b \in BookingsOf(c) :
        b.startTime >= s.endTime =>
            b.startTime - s.endTime >= BreakSeconds(c)

\* C6: at every point of a call, the sessions created for a topic sum to at
\* most estimatedHours * 60 minutes.
C6_CapacityBound ==
    \A c \in Procs : \A i \in DOMAIN syllabus[c] :
        AllocatedSeconds(c, syllabus[c][i].id)
            <= syllabus[c][i].estimatedHours * 60 * Minute

\* a topic that reached exactly its requirement, in three sessions
C6_Witness ==
    \E i \in DOMAIN syllabus[1] :
        /\ AllocatedSeconds(1, syllabus[1][i].id)
              = syllabus[1][i].estimatedHours * 60 * Minute
        /\ Cardinality({s \in SessionsOf(1) : s.topicId = syllabus[1][i].id}) = 3

\* C7: every created session lasts at least 15 minutes.
C7_MinimumSessionFloor ==
    \A c \in Procs : \A s \in SessionsOf(c) :
        s.endTime - s.startTime >= 15 * Minute

\* a session of exactly 15 minutes was created, cut down by what the topic
\* still needed
C7_Witness ==
    \E s \in SessionsOf(1) :
        /\ s.endTime - s.startTime = 15 * Minute
        /\ Opts(1).sessionDuration > 15

\* C8: topics are served critical, high, medium, low whatever their place in
\* syllabus.topics: the sessions come in priority order, and a topic has a
\* session only when each incomplete topic of strictly higher priority has
\* its full requiredMinutes.
C8_PriorityOrdering ==
    \A c \in Procs :
        /\ \A i, j \in DOMAIN scheduledSessions[c] :
              i < j =>
                  PriorityRank(syllabus[c][scheduledSessions[c][i].topicId])
                      <= PriorityRank(syllabus[c][scheduledSessions[c][j].topicId])
        /\ \A s \in SessionsOf(c) : \A k \in DOMAIN syllabus[c] :
              (/\ IsIncomplete(syllabus[c][k])
               /\ PriorityRank(syllabus[c][k]) < PriorityRank(syllabus[c][s.topicId]))
              => AllocatedSeconds(c, k) = RequiredMinutes(syllabus[c][k]) * Minute

\* the slots ran out after the higher-priority topic, declared second, got
\* its full time; the lower-priority topic declared first got none
C8_Witness ==
    /\ pc[1] = "done"
    /\ Len(syllabus[1]) = 2
    /\ IsIncomplete(syllabus[1][1])
    /\ IsIncomplete(syllabus[1][2])
    /\ PriorityRank(syllabus[1][2]) < PriorityRank(syllabus[1][1])
    /\ AllocatedSeconds(1, 2) = RequiredMinutes(syllabus[1][2]) * Minute
    /\ AllocatedSeconds(1, 1) = 0
    /\ slotIndex[1] = Len(availableSlots[1])

\* C9: two finished findAvailableSlots calls of one user with the same
\* options over the same stored sessions returned the same slot list,
\* whatever the wall-clock time of each call.
C9_SlotComputationIdempotent ==
    (/\ pc[1] = "done" /\ pc[2] = "done"
     /\ op[1] = "findAvailableSlots" /\ op[2] = "findAvailableSlots"
     /\ userId[1] = userId[2]
     /\ options[1] = options[2]
     /\ store = bookings)
    => availableSlots[1] = availableSlots[2]

\* C10: every slot findAvailableSlots returns is at least sessionDuration
\* minutes long.
C10_SlotsFitASession ==
    \A c \in Procs :
        SlotsAsReturned(c) =>
            \A i \in DOMAIN availableSlots[c] :
                availableSlots[c][i].end - availableSlots[c][i].start
                    >= Opts(c).sessionDuration * Minute

\* a returned list with slots, where day 0 has a fetched booking whose free
\* time before it is shorter than sessionDuration and is not a slot
C10_Witness ==
    /\ op[1] = "findAvailableSlots" /\ pc[1] = "done"
    /\ availableSlots[1] # << >>
    /\ \E b \in BookingsOf(1) :
          /\ b.startTime >= today[1]
          /\ b.startTime > DayStart(today[1], 0, Opts(1))
          /\ b.startTime <= DayEnd(today[1], 0, Opts(1))
          /\ b.startTime - DayStart(today[1], 0, Opts(1))
                < Opts(1).sessionDuration * Minute
          /\ \A i \in DOMAIN availableSlots[1] :
                availableSlots[1][i].end # b.startTime

\* the bookings of the caller that start or end on day number day of the
\* call's horizon
BookingsOnDay(c, day) ==
    {b \in BookingsOf(c) :
        \/ DayOf(b.startTime) = DayOf(today[c]) + day
        \/ DayOf(b.endTime) = DayOf(today[c]) + day}

\* the slots of the call that start on day number day of its horizon
SlotsOnDay(c, day) ==
    SelectSeq(availableSlots[c],
              LAMBDA sl : DayOf(sl.start) = DayOf(today[c]) + day)

\* the slots the single booking b leaves in the window from dayStart to dayEnd
SlotsAround(b, dayStart, dayEnd, opts) ==
    (IF b.startTime - dayStart >= opts.sessionDuration * Minute
     THEN << TimeSlot(dayStart, b.startTime) >>
     ELSE << >>)
    \o (IF dayEnd - (b.endTime + opts.breakDuration * Minute)
              >= opts.sessionDuration * Minute
        THEN << TimeSlot(b.endTime + opts.breakDuration * Minute, dayEnd) >>
        ELSE << >>)

\* C11: findAvailableSlots returns, for a day whose only booking lies inside
\* the preferred window, the slot before the booking (when it fits a
\* session) and the slot from the booking's end plus the break to the
\* window end (when it fits a session), and nothing else; for a day without
\* bookings, the whole window.
C11_SlotsOfADay ==
    \A c \in Procs :
        SlotsAsReturned(c) =>
            \A day \in 0..(Opts(c).daysAhead - 1) :
                LET dayStart == DayStart(today[c], day, Opts(c))
                    dayEnd == DayEnd(today[c], day, Opts(c))
                    B == BookingsOnDay(c, day)
                IN  /\ B = {} =>
                          SlotsOnDay(c, day) = << TimeSlot(dayStart, dayEnd) >>
                    /\ \A b \in B :
                          (/\ B = {b}
                           /\ dayStart <= b.startTime
                           /\ b.endTime <= dayEnd)
                          => SlotsOnDay(c, day)
                                = SlotsAround(b, dayStart, dayEnd, Opts(c))

\* the slot list findAvailableSlots returned to the call: in a behaviour
\* with one call the collection it read was bookings
SlotsFound(c) == FindSlots(bookings, userId[c], today[c], Opts(c))

RECURSIVE SlotSeconds(_, _)
\* summed length of the slots of seq from index i on
SlotSeconds(seq, i) ==
    IF i > Len(seq) THEN 0
    ELSE (seq[i].end - seq[i].start) + SlotSeconds(seq, i + 1)

\* the lengths in minutes of the sessions the call created, in order
SessionLengths(c) ==
    [i \in DOMAIN scheduledSessions[c] |->
        (scheduledSessions[c][i].endTime - scheduledSessions[c][i].startTime)
            \div Minute]

\* a finished call for one incomplete topic of 2 hours with sessionDuration
\* 45 whose slots added up to exactly 120 minutes
TwoHoursInTwoHours(c) ==
    /\ op[c] = "autoScheduleSessions"
    /\ pc[c] = "done"
    /\ Len(IncompleteTopics(c)) = 1
    /\ IncompleteTopics(c)[1].estimatedHours = 2
    /\ Opts(c).sessionDuration = 45
    /\ SlotSeconds(SlotsFound(c), 1) = 120 * Minute

\* C12 as stated: such a call creates three sessions of 45, 45 and 30
\* minutes.
C12_ThreeSessions ==
    \A c \in Procs :
        TwoHoursInTwoHours(c) => SessionLengths(c) = << 45, 45, 30 >>

\* C12, amended: such a call creates sessions of 45 minutes only, at most
\* two of them and exactly two when breakDuration is at most 30.
C12_TwoSessions ==
    \A c \in Procs :
        TwoHoursInTwoHours(c) =>
            /\ \A i \in DOMAIN SessionLengths(c) : SessionLengths(c)[i] = 45
            /\ Len(scheduledSessions[c]) <= 2
            /\ Opts(c).breakDuration <= 30 => Len(scheduledSessions[c]) = 2

\* such a call whose 120 free minutes came as two slots
C12_Witness ==
    /\ TwoHoursInTwoHours(1)
    /\ Len(SlotsFound(1)) = 2
    /\ Len(scheduledSessions[1]) = 2

\* every topic of the call's syllabus is completed or skipped
NothingToStudy(c) ==
    \A i \in DOMAIN syllabus[c] :
        syllabus[c][i].status \in {"completed", "skipped"}

\* C13: a call of autoScheduleSessions whose syllabus has no topic other
\* than completed or skipped ones returns at once: it never waits for the
\* bookings, has no slot list, creates no session and writes nothing.
C13_NothingToStudy ==
    \A c \in Procs :
        (op[c] = "autoScheduleSessions" /\ NothingToStudy(c)) =>
            /\ pc[c] \in {"off", "idle", "done"}
            /\ availableSlots[c] = << >>
            /\ scheduledSessions[c] = << >>
            /\ pc[c] = "done" => store = bookings

\* a returned call whose two topics are completed or skipped, with
\* sessions stored that it did not read
C13_Witness ==
    /\ op[1] = "autoScheduleSessions"
    /\ pc[1] = "done"
    /\ Len(syllabus[1]) = 2
    /\ NothingToStudy(1)
    /\ store # << >>

----------------------------------------------------------------------------
(* A call with a malformed options argument *)

MalformedOptionsChoices ==
    {[preferredStartHour |-> 9, preferredEndHour |-> 9, daysAhead |-> 1],
     [preferredEndHour |-> 11, sessionDuration |-> 0, daysAhead |-> 1],
     [preferredEndHour |-> 11, breakDuration |-> 0 - 15, daysAhead |-> 1],
     [daysAhead |-> 0]}

Malformed(opts) ==
    \/ opts.preferredStartHour >= opts.preferredEndHour
    \/ opts.sessionDuration <= 0
    \/ opts.breakDuration < 0
    \/ opts.daysAhead < 1

InitMalformed ==
    /\ store \in StoreChoices
    /\ bookings = store
    /\ clock = 0
    /\ \E o \in Ops :
          /\ op = [c \in Procs |-> o]
          /\ \E tl \in (IF o = "autoScheduleSessions" THEN TopicLists ELSE {<< >>}) :
                syllabus = [c \in Procs |-> IF c = 1 THEN tl ELSE << >>]
    /\ pc = [c \in Procs |-> IF c = 1 THEN "idle" ELSE "off"]
    /\ userId = [c \in Procs |-> "u1"]
    /\ \E o \in MalformedOptionsChoices : options = [c \in Procs |-> o]
    /\ today = [c \in Procs |-> 0]
    /\ availableSlots = [c \in Procs |-> << >>]
    /\ slotIndex = [c \in Procs |-> 0]
    /\ topicIndex = [c \in Procs |-> 0]
    /\ scheduledMinutes = [c \in Procs |-> 0]
    /\ scheduledSessions = [c \in Procs |-> << >>]

SpecMalformed == InitMalformed /\ [][Next]_vars

\* C14: a call with malformed options is rejected before scheduling begins:
\* it never sends the query for the bookings, never computes slots or
\* creates sessions, and never returns a result as a well-formed call does.
C14_MalformedRejected ==
    \A c \in Procs :
        Malformed(Opts(c)) => pc[c] \notin {"query", "alloc", "done"}

C16_OnlyIncompleteTopics ==
    \A c \in Procs :
        /\ \A s \in SessionsOf(c) :
              syllabus[c][s.topicId].status \in {"not-started", "in-progress"}
        /\ InTopicLoop(c) =>
              CurrentTopic(c).status \in {"not-started", "in-progress"}

\* a returned call whose first topic, skipped or completed and of higher
\* priority, got nothing while the second got sessions
C16_Witness ==
    /\ pc[1] = "done"
    /\ Len(syllabus[1]) = 2
    /\ syllabus[1][1].status \in {"completed", "skipped"}
    /\ PriorityRank(syllabus[1][1]) < PriorityRank(syllabus[1][2])
    /\ scheduledSessions[1] # << >>
    /\ \A s \in SessionsOf(1) : s.topicId = 2

\* the days of the call's horizon whose preferred window holds the interval
\* from s to e
WindowDaysOf(c, s, e) ==
    {day \in 0..(Opts(c).daysAhead - 1) :
        /\ (DayOf(today[c]) + day) * Day + Opts(c).preferredStartHour * Hour <= s
        /\ e <= (DayOf(today[c]) + day) * Day + Opts(c).preferredEndHour * Hour}

\* C17: every slot findAvailableSlots returns and every session
\* autoScheduleSessions creates lies inside the preferred window of exactly
\* one of the daysAhead days that start today.
C17_InsideOneWindow ==
    \A c \in Procs :
        /\ SlotsAsReturned(c) =>
              \A i \in DOMAIN availableSlots[c] :
                  Cardinality(WindowDaysOf(c, availableSlots[c][i].start,
                                              availableSlots[c][i].end)) = 1
        /\ \A s \in SessionsOf(c) :
              Cardinality(WindowDaysOf(c, s.startTime, s.endTime)) = 1

\* a returned call with a session on the second day, later than the window
\* start, the day also holding a booking that was read
C17_Witness ==
    /\ pc[1] = "done"
    /\ \E s \in SessionsOf(1) :
          /\ WindowDaysOf(1, s.startTime, s.endTime) = {1}
          /\ s.startTime > DayStart(today[1], 1, Opts(1))
    /\ \E b \in BookingsOf(1) :
          WindowDaysOf(1, b.startTime, b.endTime) = {1}

\* C18 as stated: every slot of a call's list has start < end at all times.
C18_SlotsNeverEmpty ==
    \A c \in Procs : \A i \in DOMAIN availableSlots[c] :
        availableSlots[c][i].start < availableSlots[c][i].end

\* C18, amended: every slot has start < end when findAvailableSlots returns
\* it and for as long as autoScheduleSessions may still read it (slotIndex
\* has not moved past it); a slot that a session has exhausted may be left
\* with start >= end.
C18_LiveSlotsNotEmpty ==
    \A c \in Procs : \A i \in DOMAIN availableSlots[c] :
        i > slotIndex[c] =>
            availableSlots[c][i].start < availableSlots[c][i].end

\* the call has left a slot behind with start >= end and has shrunk the
\* slot it is reading now
C18_Witness ==
    /\ pc[1] = "alloc"
    /\ slotIndex[1] < Len(availableSlots[1])
    /\ \E i \in 1..slotIndex[1] :
          availableSlots[1][i].start >= availableSlots[1][i].end
    /\ CurrentSlot(1).start > SlotsFound(1)[slotIndex[1] + 1].start

----------------------------------------------------------------------------
(* Two calls of autoScheduleSessions, by two users or by one, whose steps   *)
(* interleave at their awaits                                              *)

BookingChoicesTwo ==
    << SessionDoc("u1", 0, At(0, 10, 0, 0), At(0, 11, 0, 0)),
       SessionDoc("u1", 0, At(1, 9, 45, 30), At(1, 10, 0, 0)),
       SessionDoc("u2", 0, At(0, 9, 0, 0), At(0, 10, 0, 0)) >>

StoreChoicesTwo ==
    {SelectSeq(BookingChoicesTwo, LAMBDA b : b \in S) :
        S \in {T \in SUBSET {BookingChoicesTwo[i] : i \in DOMAIN BookingChoicesTwo} :
                  Cardinality(T) <= MaxBookings}}

OptionsChoicesTwo ==
    {[preferredEndHour |-> 11, daysAhead |-> 2],
     [preferredEndHour |-> 11, sessionDuration |-> 50, daysAhead |-> 1]}

TopicListsTwo ==
    {<< Topic(1, [priority |-> "critical", status |-> "not-started", estimatedHours |-> 1]) >>,
     << Topic(1, [priority |-> "low", status |-> "not-started", estimatedHours |-> 1]),
        Topic(2, [priority |-> "high", status |-> "in-progress", estimatedHours |-> 2]) >>,
     << Topic(1, [priority |-> "medium", status |-> "completed", estimatedHours |-> 1]) >>}

InitTwo ==
    /\ store \in StoreChoicesTwo
    /\ bookings = store
    /\ clock = 0
    /\ op = [c \in Procs |-> "autoScheduleSessions"]
    /\ syllabus \in [Procs -> TopicListsTwo]
    /\ pc = [c \in Procs |-> "idle"]
    /\ \E u \in Users : userId = [c \in Procs |-> IF c = 1 THEN "u1" ELSE u]
    /\ options \in [Procs -> OptionsChoicesTwo]
    /\ today = [c \in Procs |-> 0]
    /\ availableSlots = [c \in Procs |-> << >>]
    /\ slotIndex = [c \in Procs |-> 0]
    /\ topicIndex = [c \in Procs |-> 0]
    /\ scheduledMinutes = [c \in Procs |-> 0]
    /\ scheduledSessions = [c \in Procs |-> << >>]

SpecTwo == InitTwo /\ [][Next]_vars

RECURSIVE Allocate(_, _, _, _, _, _, _)
\* the sessions the allocation loop of autoScheduleSessions creates from the
\* given point on when nothing else runs
Allocate(u, topics, opts, slots, si, ti, minutes) ==
    IF ti >= Len(topics)
    THEN << >>
    ELSE LET topic == topics[ti + 1]
         IN  IF ~(minutes < RequiredMinutes(topic) /\ si < Len(slots))
             THEN Allocate(u, topics, opts, slots, si, ti + 1, 0)
             ELSE LET slot == slots[si + 1]
                      sessionMinutes ==
                          SessionMinutes(opts,
                                         DifferenceInMinutes(slot.end, slot.start),
                                         RequiredMinutes(topic) - minutes)
                      sessionEnd == AddMinutes(slot.start, sessionMinutes)
                      shrunk == TimeSlot(NextSlotStart(sessionEnd, opts), slot.end)
                  IN  IF LongEnough(sessionMinutes)
                      THEN << SessionDoc(u, topic.id, slot.start, sessionEnd) >>
                           \o Allocate(u, topics, opts,
                                       [slots EXCEPT ![si + 1] = shrunk],
                                       IF SlotExhausted(shrunk, opts)
                                       THEN si + 1 ELSE si,
                                       ti, minutes + sessionMinutes)
                      ELSE Allocate(u, topics, opts, slots, si + 1, ti, minutes)

\* what autoScheduleSessions(u, syllabus, options) returns when it runs alone
\* at time now over the collection docs
RunAlone(docs, u, topics, opts, now) ==
    Allocate(u, IncompleteTopicsOf(topics), opts,
             FindSlots(docs, u, now, opts), 0, 0, 0)

\* the stored sessions of user u
StoredOf(docs, u) == SelectSeq(docs, LAMBDA d : d.userId = u)

\* C19: when the two calls are for different users, each returns, and has
\* stored for its user, exactly the sessions it would have created running
\* alone over the sessions stored before both.
C19_UsersDoNotInterfere ==
    userId[1] # userId[2] =>
        \A c \in Procs :
            pc[c] = "done" =>
                /\ scheduledSessions[c]
                      = RunAlone(bookings, userId[c], syllabus[c], Opts(c), today[c])
                /\ StoredOf(store, userId[c])
                      = StoredOf(bookings, userId[c]) \o scheduledSessions[c]

\* both calls, for different users, have returned, and the sessions they
\* stored alternate in the collection: their writes interleaved
C19_Witness ==
    /\ userId[1] # userId[2]
    /\ pc[1] = "done" /\ pc[2] = "done"
    /\ \E i, j, k \in DOMAIN store :
          /\ i < j /\ j < k
          /\ store[i].topicId # 0 /\ store[j].topicId # 0 /\ store[k].topicId # 0
          /\ store[i].userId = store[k].userId
          /\ store[i].userId # store[j].userId

\* C20: when autoScheduleSessions returns, either every incomplete topic
\* has exactly estimatedHours * 60 minutes of sessions, or no slot is left
\* with at least sessionDuration minutes unallocated.
C20_SatisfiedOrExhausted ==
    \A c \in Procs :
        (op[c] = "autoScheduleSessions" /\ pc[c] = "done") =>
            \/ \A i \in DOMAIN syllabus[c] :
                  IsIncomplete(syllabus[c][i]) =>
                      AllocatedSeconds(c, syllabus[c][i].id)
                          = RequiredMinutes(syllabus[c][i]) * Minute
            \/ \A i \in DOMAIN availableSlots[c] :
                  availableSlots[c][i].end - availableSlots[c][i].start
                      < Opts(c).sessionDuration * Minute

\* C21: during the allocation loop slotIndex never decreases, also when the
\* next topic starts, and a session never starts inside a slot, as
\* findAvailableSlots returned it, that slotIndex has already moved past.
C21_CursorNeverGoesBack ==
    [][\A c \in Procs :
          pc[c] = "alloc" =>
              /\ slotIndex'[c] >= slotIndex[c]
              /\ Len(scheduledSessions'[c]) > Len(scheduledSessions[c]) =>
                    LET s == scheduledSessions'[c][Len(scheduledSessions'[c])]
                    IN  \A i \in 1..slotIndex[c] :
                            ~(/\ SlotsFound(c)[i].start <= s.startTime
                              /\ s.startTime < SlotsFound(c)[i].end)]_vars

\* the second topic of the list has a session, placed in a later slot than
\* the first one
C21_Witness ==
    /\ pc[1] = "alloc"
    /\ Len(IncompleteTopics(1)) = 2
    /\ topicIndex[1] = 1
    /\ slotIndex[1] >= 1
    /\ Len(SlotsFound(1)) >= 2
    /\ \E i \in DOMAIN scheduledSessions[1] :
          /\ scheduledSessions[1][i].topicId = IncompleteTopics(1)[2].id
          /\ scheduledSessions[1][i].startTime >= SlotsFound(1)[2].start

\* C22: once a session has been cut from a slot and what is left of the slot
\* after the break is shorter than sessionDuration, no further session, of
\* any topic, is placed in that slot.
C22_RemainderAbandoned ==
    [][\A c \in Procs :
          (/\ pc[c] = "alloc"
           /\ Len(scheduledSessions'[c]) > Len(scheduledSessions[c])) =>
              LET s == scheduledSessions'[c][Len(scheduledSessions'[c])]
              IN  \A i \in DOMAIN availableSlots[c] :
                      (/\ availableSlots[c][i].start > SlotsFound(c)[i].start
                       /\ DifferenceInMinutes(availableSlots[c][i].end,
                                              availableSlots[c][i].start)
                              < Opts(c).sessionDuration) =>
                          ~(/\ SlotsFound(c)[i].start <= s.startTime
                            /\ s.startTime < SlotsFound(c)[i].end)]_vars

\* the call has returned; a slot was left with a remainder that would hold
\* all the minutes of a later topic, and that topic has no session in it
C22_Witness ==
    /\ op[1] = "autoScheduleSessions" /\ pc[1] = "done"
    /\ Len(IncompleteTopics(1)) = 2
    /\ \E i \in DOMAIN availableSlots[1] :
          /\ availableSlots[1][i].start > SlotsFound(1)[i].start
          /\ DifferenceInMinutes(availableSlots[1][i].end, availableSlots[1][i].start)
                < Opts(1).sessionDuration
          /\ DifferenceInMinutes(availableSlots[1][i].end, availableSlots[1][i].start)
                >= RequiredMinutes(IncompleteTopics(1)[2])
          /\ \A s \in SessionsOf(1) :
                (/\ SlotsFound(1)[i].start <= s.startTime
                 /\ s.startTime < SlotsFound(1)[i].end) =>
                    s.topicId = IncompleteTopics(1)[1].id

\* one call of autoScheduleSessions in which every awaited promise settles
\* and the continuation after it is run
InitLive ==
    /\ store \in StoreChoicesTwo
    /\ bookings = store
    /\ clock = 0
    /\ op = [c \in Procs |-> "autoScheduleSessions"]
    /\ \E tl \in TopicListsTwo :
          syllabus = [c \in Procs |-> IF c = 1 THEN tl ELSE << >>]
    /\ pc = [c \in Procs |-> IF c = 1 THEN "idle" ELSE "off"]
    /\ userId = [c \in Procs |-> "u1"]
    /\ \E o \in OptionsChoices : options = [c \in Procs |-> o]
    /\ today = [c \in Procs |-> 0]
    /\ availableSlots = [c \in Procs |-> << >>]
    /\ slotIndex = [c \in Procs |-> 0]
    /\ topicIndex = [c \in Procs |-> 0]
    /\ scheduledMinutes = [c \in Procs |-> 0]
    /\ scheduledSessions = [c \in Procs |-> << >>]

SpecLive == InitLive /\ [][Next]_vars /\ WF_vars(Next)

\* C23: every iteration of the while loop adds at least 15 minutes to the
\* topic's scheduledMinutes or increments slotIndex, and a call that has
\* entered the allocation loop returns.
C23_AllocationTerminates ==
    /\ [][\A c \in Procs :
             (/\ InTopicLoop(c) /\ WhileCondition(c)
              /\ << slotIndex[c], scheduledMinutes[c], topicIndex[c], pc[c] >>'
                    # << slotIndex[c], scheduledMinutes[c], topicIndex[c], pc[c] >>) =>
                 /\ topicIndex'[c] = topicIndex[c] /\ pc'[c] = pc[c]
                 /\ \/ scheduledMinutes'[c] >= scheduledMinutes[c] + MinSessionMinutes
                    \/ slotIndex'[c] = slotIndex[c] + 1]_vars
    /\ \A c \in Procs : (pc[c] = "alloc") ~> (pc[c] = "done")

\* the call has returned after iterations of both kinds: sessions were
\* created for two topics and the cursor ran through every slot
C23_Witness ==
    /\ op[1] = "autoScheduleSessions" /\ pc[1] = "done"
    /\ Cardinality({s.topicId : s \in SessionsOf(1)}) = 2
    /\ slotIndex[1] = Len(availableSlots[1])
    /\ slotIndex[1] >= 2

\* C24: whenever the while loop reads availableSlots[slotIndex], what is left
\* of that slot is at least sessionDuration minutes, and a session created
\* from it lasts exactly min(sessionDuration, requiredMinutes -
\* scheduledMinutes) minutes, which is at most sessionDuration.
C24_SlotNeverLimits ==
    [][\A c \in Procs :
          (InTopicLoop(c) /\ WhileCondition(c)) =>
              /\ DifferenceInMinutes(CurrentSlot(c).end, CurrentSlot(c).start)
                    >= Opts(c).sessionDuration
              /\ Len(scheduledSessions'[c]) > Len(scheduledSessions[c]) =>
                    LET s == scheduledSessions'[c][Len(scheduledSessions'[c])]
                        remaining == RequiredMinutes(CurrentTopic(c)) - scheduledMinutes[c]
                    IN  /\ s.endTime - s.startTime
                              = Min(Opts(c).sessionDuration, remaining) * Minute
                        /\ s.endTime - s.startTime <= Opts(c).sessionDuration * Minute]_vars

\* a full session and a shorter last one were created, and the loop is about
\* to read a slot that an earlier session was cut from
C24_Witness ==
    /\ InTopicLoop(1) /\ WhileCondition(1)
    /\ CurrentSlot(1).start > SlotsFound(1)[slotIndex[1] + 1].start
    /\ \E s, t \in SessionsOf(1) :
          /\ s.endTime - s.startTime = Opts(1).sessionDuration * Minute
          /\ t.endTime - t.startTime < Opts(1).sessionDuration * Minute

\* C25: when the running topic still needs some minutes, fewer than 15, and
\* slots remain, the next iteration creates no session and increments
\* slotIndex; once the loop has left a topic that far short of its minutes,
\* slotIndex is past every slot and no topic after it has any session.
C25_ShortRemainderBurnsSlots ==
    /\ [][\A c \in Procs :
             (/\ InTopicLoop(c) /\ WhileCondition(c)
              /\ RequiredMinutes(CurrentTopic(c)) - scheduledMinutes[c]
                    < MinSessionMinutes) =>
                 /\ scheduledSessions'[c] = scheduledSessions[c]
                 /\ slotIndex'[c] = slotIndex[c] + 1]_vars
    /\ [](\A c \in Procs :
             pc[c] \in {"alloc", "done"} =>
                 \A k \in 1..topicIndex[c] :
                     LET outstanding ==
                             RequiredMinutes(IncompleteTopics(c)[k]) * Minute
                                 - AllocatedSeconds(c, IncompleteTopics(c)[k].id)
                     IN  (0 < outstanding /\ outstanding < MinSessionMinutes * Minute) =>
                             /\ slotIndex[c] = Len(availableSlots[c])
                             /\ \A j \in (k + 1)..Len(IncompleteTopics(c)) :
                                   AllocatedSeconds(c, IncompleteTopics(c)[j].id) = 0)

\* the call has returned: the first topic is 10 minutes short, the second has
\* no session, and a slot that no session was cut from is left
C25_Witness ==
    /\ op[1] = "autoScheduleSessions" /\ pc[1] = "done"
    /\ Len(IncompleteTopics(1)) = 2
    /\ RequiredMinutes(IncompleteTopics(1)[1]) * Minute
          - AllocatedSeconds(1, IncompleteTopics(1)[1].id) = 10 * Minute
    /\ AllocatedSeconds(1, IncompleteTopics(1)[2].id) = 0
    /\ \E i \in DOMAIN availableSlots[1] :
          /\ availableSlots[1][i] = SlotsFound(1)[i]
          /\ availableSlots[1][i].end - availableSlots[1][i].start
                >= RequiredMinutes(IncompleteTopics(1)[2]) * Minute

\* C26: the list autoScheduleSessions builds is strictly increasing in
\* startTime over its whole length, and every session of a topic of higher
\* priority starts before every session of a topic of lower priority.
C26_ListIncreasing ==
    \A c \in Procs :
        /\ \A i, j \in DOMAIN scheduledSessions[c] :
              i < j => scheduledSessions[c][i].startTime
                          < scheduledSessions[c][j].startTime
        /\ \A s, t \in SessionsOf(c) :
              PriorityRank(syllabus[c][s.topicId]) < PriorityRank(syllabus[c][t.topicId])
                  => s.startTime < t.startTime

\* the call has returned at least three sessions, for two topics of different
\* priorities, the one of lower priority first in syllabus.topics
C26_Witness ==
    /\ op[1] = "autoScheduleSessions" /\ pc[1] = "done"
    /\ Len(scheduledSessions[1]) >= 3
    /\ \E s, t \in SessionsOf(1) :
          /\ s.topicId > t.topicId
          /\ PriorityRank(syllabus[1][s.topicId]) < PriorityRank(syllabus[1][t.topicId])

\* the bookings of the caller have start < end, do not overlap one another
\* and each lies inside the preferred window of one of the days of the call
WellFormedBookings(c) ==
    /\ \A b \in BookingsOf(c) :
          /\ b.startTime < b.endTime
          /\ \E day \in 0..(Opts(c).daysAhead - 1) :
                /\ DayStart(today[c], day, Opts(c)) <= b.startTime
                /\ b.endTime <= DayEnd(today[c], day, Opts(c))
    /\ \A a, b \in BookingsOf(c) : a # b => ~Overlap(a, b)

\* C27: with well-formed bookings, every slot findAvailableSlots returns is
\* disjoint from every booking, the slots are in ascending order and
\* disjoint, and each starts at the window start of its day or exactly
\* breakDuration after the end of the booking before it.
C27_SlotsAvoidBookings ==
    \A c \in Procs :
        (SlotsAsReturned(c) /\ WellFormedBookings(c)) =>
            LET slots == availableSlots[c]
            IN  /\ \A i \in DOMAIN slots : \A b \in BookingsOf(c) :
                      ~(slots[i].start < b.endTime /\ b.startTime < slots[i].end)
                /\ \A i, j \in DOMAIN slots :
                      i < j => slots[i].end <= slots[j].start
                /\ \A i \in DOMAIN slots :
                      \/ \E day \in 0..(Opts(c).daysAhead - 1) :
                            slots[i].start = DayStart(today[c], day, Opts(c))
                      \/ \E b \in BookingsOf(c) :
                            /\ slots[i].start = AddMinutes(b.endTime, Opts(c).breakDuration)
                            /\ \A a \in BookingsOf(c) :
                                  ~(b.endTime <= a.startTime /\ a.startTime < slots[i].start)

\* C28: when the two calls are for the same user, no session stored by one
\* overlaps a session stored by the other, however their steps interleave.
C28_SameUserCallsDoNotOverlap ==
    userId[1] = userId[2] =>
        \A s \in SessionsOf(1) : \A t \in SessionsOf(2) : ~Overlap(s, t)

\* C29: no slot findAvailableSlots returns and no session autoScheduleSessions
\* creates starts before the wall-clock time the call read as today.
C29_NothingInThePast ==
    \A c \in Procs :
        pc[c] \in {"alloc", "done"} =>
            /\ \A i \in DOMAIN availableSlots[c] :
                  availableSlots[c][i].start >= today[c]
            /\ \A s \in SessionsOf(c) : s.startTime >= today[c]

----------------------------------------------------------------------------
(* autoScheduleSessions run to completion, then run again by the same user *)
(* with the same syllabus and options                                      *)

InitAgain ==
    /\ store \in StoreChoicesTwo
    /\ bookings = store
    /\ clock = 0
    /\ op = [c \in Procs |-> "autoScheduleSessions"]
    /\ \E tl \in TopicListsTwo : syllabus = [c \in Procs |-> tl]
    /\ pc = [c \in Procs |-> "idle"]
    /\ userId = [c \in Procs |-> "u1"]
    /\ \E o \in OptionsChoices : options = [c \in Procs |-> o]
    /\ today = [c \in Procs |-> 0]
    /\ availableSlots = [c \in Procs |-> << >>]
    /\ slotIndex = [c \in Procs |-> 0]
    /\ topicIndex = [c \in Procs |-> 0]
    /\ scheduledMinutes = [c \in Procs |-> 0]
    /\ scheduledSessions = [c \in Procs |-> << >>]

\* a step of call c
StepOf(c) ==
    \/ ReturnEmpty(c)
    \/ Begin(c)
    \/ FindAvailableSlots(c)
    \/ CreateSession(c)
    \/ SkipSlot(c)
    \/ NextTopic(c)
    \/ Return(c)

\* the second call is made after the first has returned
NextAgain ==
    \/ StepOf(1)
    \/ pc[1] = "done" /\ StepOf(2)

SpecAgain == InitAgain /\ [][NextAgain]_vars

\* C30: a second run, made after the first has returned, creates no session
\* that overlaps a session the first run created.
C30_RerunDoesNotOverlap ==
    \A s \in SessionsOf(1) : \A t \in SessionsOf(2) : ~Overlap(s, t)

====
